---- MODULE Spec2Model ----
(***************************************************************************)
(* Request/reply over Pub/Sub (watermill).                                 *)
(*                                                                         *)
(*   requestreply.SendWithReply          components/requestreply/command_bus.go *)
(*   NewCommandHandler[WithResult]       the handler-side wrappers         *)
(*   PubSubRequestReply.ListenForReply,  components/cqrs                   *)
(*     handleNotifyMsg, OnCommandProcessed                                 *)
(*   EventGroupProcessor.AddHandlersGroup, components/cqrs                 *)
(*     routerHandlerGroupFunc                                              *)
(*                                                                         *)
(* One caller process per operation id runs SendWithReply; ListenForReply  *)
(* spawns one background worker per call; the handler side consumes the    *)
(* commands of the bus and emits notifications on the reply topic, which   *)
(* every open subscription of that topic observes.                         *)
(***************************************************************************)
EXTENDS Integers, Sequences, FiniteSets, TLC

\* ------------------------------------------------------------------ bounds
\* commands that other processes put on the bus (their notifications share
\* the reply topic with the modelled caller)
MaxForeign == 2

\* the same, in the behaviours checked for liveness
MaxForeignLive == 1
\* the longest handler list of an AddHandlersGroup call
MaxHandlers == 2

\* ------------------------------------------------------------------ values
CommandUUIDs == {"X", "Y"}

Results == {"r1", "r2"}

\* a Go error value: nil, or an error with a message
Nil == [isNil |-> TRUE, text |-> ""]
GoErr(text) == [isNil |-> FALSE, text |-> text]
HandleErrs == {Nil, GoErr("e1"), GoErr("e2")}

\* context.Context.Err(): "" while the context is not done
Canceled == "context canceled"
DeadlineExceeded == "context deadline exceeded"

\* message.Message of a notification: the handled-command-uuid metadata
\* and the marshaled payload
NoMsg == [handled |-> "", payload |-> <<>>]

\* CommandReply.Err
NoReplyErr == [type |-> "nil", text |-> ""]
CommandHandlerError(err) == [type |-> "CommandHandlerError", text |-> err.text]
ReplyTimeoutError(cause) == [type |-> "ReplyTimeoutError", text |-> cause]

VARIABLES
    callers,      \* the operation ids whose caller runs SendWithReply
    timeoutCfg,   \* config.ListenForReplyTimeout != nil
    foreignMax,   \* how many commands other processes send in this behaviour
    pc,           \* [id -> position of the caller in SendWithReply]
    ctxErr,       \* [id -> Err() of the listening context]
    sub,          \* [id -> "none" | "open" | "closed"], the notifyMsgs channel
    notifyMsgs,   \* [id -> messages the subscription holds for the listener]
    wpc,          \* [id -> position of the background worker]
    pending,      \* [id -> the CommandReply the worker is about to write]
    replyChan,    \* [id -> buffer of the replyChan (capacity 1)]
    chanClosed,   \* [id -> close(replyChan) has run]
    written,      \* [id -> every CommandReply written to replyChan, in order]
    acked,        \* [id -> handled-command-uuid of every message the worker acked]
    bus,          \* command messages published and not yet handled
    sent,         \* [id -> number of command publishes of SendWithReply]
    foreignSent,  \* number of commands other processes have sent
    handlerLog,   \* [id -> outcomes of the wrapped handler for that command]
    lastRun,      \* the inputs and the outcome of the latest observed handler run
    groupEventHandlers, \* EventGroupProcessor.groupEventHandlers
    addResult,    \* the latest AddHandlersGroup call and what it returned
    firstAdded,   \* [group name -> handlers of its first successful registration]
    groupConfig,  \* EventGroupProcessor.config: AckOnUnknownEvent, OnGroupHandle set
    routeResult   \* the latest message given to a group's handler function, and
                  \* what the function did with it

vars == <<callers, timeoutCfg, foreignMax, pc, ctxErr, sub, notifyMsgs, wpc, pending,
          replyChan, chanClosed, written, acked, bus, sent, foreignSent,
          handlerLog, lastRun, groupEventHandlers, addResult, firstAdded,
          groupConfig, routeResult>>

callerVars == <<pc, sent>>
workerVars == <<wpc, pending, replyChan, chanClosed, written, acked>>
handlerVars == <<bus, foreignSent, handlerLog, lastRun>>
groupVars == <<groupEventHandlers, addResult, firstAdded, groupConfig, routeResult>>
cfgVars == <<callers, timeoutCfg, foreignMax, groupVars>>
requestReplyVars == <<callers, timeoutCfg, foreignMax, callerVars, ctxErr, sub,
                      notifyMsgs, workerVars, handlerVars>>

\* ------------------------------------------------------------- marshaler
\* PubSubRequestReplyMarshaler.Marshal of a RequestReplyNotification: the
\* fields are written out in order as text.
Marshal(n) ==
    << IF n.HasError THEN "true" ELSE "false", n.Error, n.Result >>

\* PubSubRequestReplyMarshaler.Unmarshal: fails on a payload that is not a
\* marshaled notification.
Unmarshal(payload) ==
    IF Len(payload) = 3 /\ payload[1] \in {"true", "false"}
    THEN [err |-> Nil,
          n   |-> [HasError |-> payload[1] = "true",
                   Error    |-> payload[2],
                   Result   |-> payload[3]]]
    ELSE [err |-> GoErr("cannot unmarshal"),
          n   |-> [HasError |-> FALSE, Error |-> "", Result |-> ""]]

\* ------------------------------------------------- reply topic, transport
\* config.GenerateReplyNotificationTopic: the configuration modelled derives
\* one topic for every operation, so listeners see each other's
\* notifications and must filter them.
GenerateReplyNotificationTopic(commandUUID) == "replies"

\* Publisher.Publish on the reply topic: every open subscription of the
\* topic receives the message; a subscription that does not exist yet
\* misses it.
Publish(topic, msg) ==
    [c \in CommandUUIDs |->
        IF sub[c] = "open" /\ GenerateReplyNotificationTopic(c) = topic
        THEN Append(notifyMsgs[c], msg)
        ELSE notifyMsgs[c]]

\* context.CancelFunc / expiry on a context: the first cause sticks
Cancelled(err, cause) == IF err = "" THEN cause ELSE err

\* ------------------------------------------------------- the initial state
\* no handler run has been observed
NoRun == [ran |-> FALSE]

\* EventGroupProcessorConfig after setDefaults: unknown events are not
\* acked and there is no OnGroupHandle hook
DefaultGroupConfig == [AckOnUnknownEvent |-> FALSE, OnGroupHandle |-> FALSE]

\* no message has been given to a group's handler function
NoRoute == [routed |-> FALSE]

\* AddHandlersGroup has not been called
NoAdd == [called |-> FALSE]

\* nothing has been called, sent or handled
InitVars ==
    /\ timeoutCfg \in BOOLEAN
    /\ pc = [c \in CommandUUIDs |-> "idle"]
    /\ ctxErr = [c \in CommandUUIDs |-> ""]
    /\ sub = [c \in CommandUUIDs |-> "none"]
    /\ notifyMsgs = [c \in CommandUUIDs |-> <<>>]
    /\ wpc = [c \in CommandUUIDs |-> "none"]
    /\ pending = [c \in CommandUUIDs |-> [ReplyMsg |-> NoMsg, Err |-> NoReplyErr]]
    /\ replyChan = [c \in CommandUUIDs |-> <<>>]
    /\ chanClosed = [c \in CommandUUIDs |-> FALSE]
    /\ written = [c \in CommandUUIDs |-> <<>>]
    /\ acked = [c \in CommandUUIDs |-> <<>>]
    /\ bus = {}
    /\ sent = [c \in CommandUUIDs |-> 0]
    /\ foreignSent = 0
    /\ handlerLog = [c \in CommandUUIDs |-> <<>>]
    /\ lastRun = NoRun
    /\ groupEventHandlers = <<>>
    /\ addResult = NoAdd
    /\ firstAdded = <<>>
    /\ routeResult = NoRoute

\* one SendWithReply call, for operation X
InitCall == callers = {"X"} /\ InitVars /\ groupConfig = DefaultGroupConfig

Init == InitCall /\ foreignMax = MaxForeign

InitLive == InitCall /\ foreignMax = MaxForeignLive

\* ------------------------------------------------- SendWithReply (caller)
\* faulty variant: the worker is spawned before the error of Subscribe is checked
ListenForReplySpawnBeforeCheck(c, outcome) ==
    IF outcome \in {"ok", "subscribeErr"}
    THEN /\ sub' = [sub EXCEPT ![c] = IF outcome = "ok" THEN "open" ELSE "closed"]
         /\ wpc' = [wpc EXCEPT ![c] = "select"]
    ELSE UNCHANGED <<sub, wpc>>

\* faulty variant: the worker is spawned at once and subscribes by itself later
ListenForReplyLazySubscribe(c, outcome) ==
    IF outcome = "ok"
    THEN /\ wpc' = [wpc EXCEPT ![c] = "select"]
         /\ UNCHANGED sub
    ELSE UNCHANGED <<sub, wpc>>

\* ListenForReply up to the spawn of the worker (lines 364-404):
\* subscriber construction, topic derivation, the (timeout) context,
\* Subscribe, make(chan, 1), go. Any of the three setup steps may fail, and
\* then there is neither a subscription nor a worker.
ListenForReply(c, outcome) ==
    IF outcome = "ok"
    THEN /\ sub' = [sub EXCEPT ![c] = "open"]
         /\ wpc' = [wpc EXCEPT ![c] = "select"]
    ELSE UNCHANGED <<sub, wpc>>

ListenOutcomes == {"ok", "constructorErr", "topicErr", "subscribeErr"}

\* SendWithReply, lines 50-66: the cancellable context, the operation id,
\* backend.ListenForNotifications; on an error the deferred cancel() runs
\* and the call returns without sending.
SendWithReplyListen(c) ==
    /\ c \in callers
    /\ pc[c] = "idle"
    /\ \E outcome \in ListenOutcomes :
         /\ ListenForReply(c, outcome)
         /\ IF outcome = "ok"
            THEN /\ pc' = [pc EXCEPT ![c] = "listening"]
                 /\ UNCHANGED ctxErr
            ELSE /\ pc' = [pc EXCEPT ![c] = "errListen"]
                 /\ ctxErr' = [ctxErr EXCEPT ![c] = Cancelled(@, Canceled)]
    /\ UNCHANGED <<sent, notifyMsgs, pending, replyChan, chanClosed, written, acked>>
    /\ UNCHANGED <<handlerVars, cfgVars>>

\* faulty variant: the marker is not set
ModifyCommandMessageBeforePublishNoMarker(cmdMsg) ==
    cmdMsg

\* PubSubRequestReply.ModifyCommandMessageBeforePublish: the marker that
\* makes the handler side emit a notification.
ModifyCommandMessageBeforePublish(cmdMsg) ==
    [cmdMsg EXCEPT !.notify = TRUE]

\* The modify callback SendWithReply hands to the bus: the operation id.
SetOperationID(cmdMsg, operationID) ==
    [cmdMsg EXCEPT !.opId = operationID]

\* The command message the bus publishes for operation c.
NewCommandMessage(c) ==
    ModifyCommandMessageBeforePublish(
        SetOperationID([uuid |-> c, opId |-> "", notify |-> FALSE], c))

\* faulty variant: the deferred cancel() is missing
SendWithReplySendNoCancel(c) ==
    /\ c \in callers
    /\ pc[c] = "listening"
    /\ \E ok \in BOOLEAN :
         IF ok
         THEN /\ bus' = bus \cup {NewCommandMessage(c)}
              /\ sent' = [sent EXCEPT ![c] = @ + 1]
              /\ pc' = [pc EXCEPT ![c] = "returned"]
         ELSE /\ pc' = [pc EXCEPT ![c] = "errSend"]
              /\ UNCHANGED <<bus, sent>>
    /\ UNCHANGED <<ctxErr, sub, notifyMsgs, workerVars, foreignSent, handlerLog, lastRun, cfgVars>>

\* SendWithReply, lines 68-75: the command is handed to the bus; when the
\* send fails the deferred cancel() cancels the listening context.
SendWithReplySend(c) ==
    /\ c \in callers
    /\ pc[c] = "listening"
    /\ \E ok \in BOOLEAN :
         IF ok
         THEN /\ bus' = bus \cup {NewCommandMessage(c)}
              /\ sent' = [sent EXCEPT ![c] = @ + 1]
              /\ pc' = [pc EXCEPT ![c] = "returned"]
              /\ UNCHANGED ctxErr
         ELSE /\ pc' = [pc EXCEPT ![c] = "errSend"]
              /\ ctxErr' = [ctxErr EXCEPT ![c] = Cancelled(@, Canceled)]
              /\ UNCHANGED <<bus, sent>>
    /\ UNCHANGED <<sub, notifyMsgs, workerVars, foreignSent, handlerLog, lastRun, cfgVars>>

\* The caller invokes the returned cancel function, or the parent context
\* is cancelled.
Cancel(c) ==
    /\ pc[c] \in {"listening", "returned"}
    /\ ctxErr[c] = ""
    /\ ctxErr' = [ctxErr EXCEPT ![c] = Canceled]
    /\ UNCHANGED <<callerVars, sub, notifyMsgs, workerVars, handlerVars, cfgVars>>

\* context.WithTimeout(ctx, *ListenForReplyTimeout) expires.
Timeout(c) ==
    /\ timeoutCfg
    /\ wpc[c] # "none"
    /\ ctxErr[c] = ""
    /\ ctxErr' = [ctxErr EXCEPT ![c] = DeadlineExceeded]
    /\ UNCHANGED <<callerVars, sub, notifyMsgs, workerVars, handlerVars, cfgVars>>

\* The transport closes the notifyMsgs channel of the subscription.
SubscriberClosed(c) ==
    /\ sub[c] = "open"
    /\ sub' = [sub EXCEPT ![c] = "closed"]
    /\ UNCHANGED <<callerVars, ctxErr, notifyMsgs, workerVars, handlerVars, cfgVars>>

\* The caller reads one CommandReply from the returned channel.
CallerRead(c) ==
    /\ pc[c] = "returned"
    /\ replyChan[c] # <<>>
    /\ replyChan' = [replyChan EXCEPT ![c] = Tail(@)]
    /\ UNCHANGED <<callerVars, ctxErr, sub, notifyMsgs, wpc, pending,
                   chanClosed, written, acked, handlerVars, cfgVars>>

\* ------------------------------------------- the worker of ListenForReply
\* capacity of replyChan: make(chan CommandReply, 1)
ReplyChanCap == 1

\* faulty variant: a decode failure of a matching notification is a handler error
handleNotifyMsgSurfaceDecodeError(msg, expectedCommandUuid) ==
    IF msg.handled # expectedCommandUuid
    THEN [ok |-> FALSE, err |-> Nil]
    ELSE LET u == Unmarshal(msg.payload) IN
         IF ~u.err.isNil
         THEN [ok |-> TRUE, err |-> GoErr("cannot unmarshal request reply notification")]
         ELSE IF u.n.HasError
              THEN [ok |-> TRUE, err |-> GoErr(u.n.Error)]
              ELSE [ok |-> TRUE, err |-> Nil]

\* faulty variant: the handled-command-uuid is not compared with the expected one
handleNotifyMsgNoFilter(msg, expectedCommandUuid) ==
    LET u == Unmarshal(msg.payload) IN
    IF ~u.err.isNil
    THEN [ok |-> FALSE, err |-> GoErr("cannot unmarshal request reply notification")]
    ELSE IF u.n.HasError
         THEN [ok |-> TRUE, err |-> GoErr(u.n.Error)]
         ELSE [ok |-> TRUE, err |-> Nil]

\* handleNotifyMsg: (ok, handlerErr). The deferred msg.Ack() acks the message
\* in every case.
handleNotifyMsg(msg, expectedCommandUuid) ==
    IF msg.handled # expectedCommandUuid
    THEN [ok |-> FALSE, err |-> Nil]
    ELSE LET u == Unmarshal(msg.payload) IN
         IF ~u.err.isNil
         THEN [ok |-> FALSE, err |-> GoErr("cannot unmarshal request reply notification")]
         ELSE IF u.n.HasError
              THEN [ok |-> TRUE, err |-> GoErr(u.n.Error)]
              ELSE [ok |-> TRUE, err |-> Nil]

\* lines 427-432: the CommandReply of a matched notification
MatchReply(notifyMsg, handlerErr) ==
    [ReplyMsg |-> notifyMsg,
     Err      |-> IF handlerErr.isNil THEN NoReplyErr
                  ELSE CommandHandlerError(handlerErr)]

\* faulty variant: the timeout error does not carry the cause
TimeoutReplyNoCause(cause) ==
    [ReplyMsg |-> NoMsg, Err |-> ReplyTimeoutError("")]

\* lines 413-415 and 420-422: the CommandReply of an expired context or of
\* a closed subscription
TimeoutReply(cause) ==
    [ReplyMsg |-> NoMsg, Err |-> ReplyTimeoutError(cause)]

\* faulty variant: the worker returns after the write of a matched reply
AfterMatchWriteReturn == "done"

\* line 435: after the write of a matched reply the loop continues
AfterMatchWrite == "select"

\* select, case <-ctx.Done() (line 412)
WorkerCtxDone(c) ==
    /\ wpc[c] = "select"
    /\ ctxErr[c] # ""
    /\ pending' = [pending EXCEPT ![c] = TimeoutReply(ctxErr[c])]
    /\ wpc' = [wpc EXCEPT ![c] = "writeFinal"]
    /\ UNCHANGED <<callerVars, ctxErr, sub, notifyMsgs, replyChan, chanClosed,
                   written, acked, handlerVars, cfgVars>>

\* faulty variant: a notification that does not match ends the loop
WorkerReceiveReturnOnMismatch(c) ==
    /\ wpc[c] = "select"
    /\ notifyMsgs[c] # <<>>
    /\ LET notifyMsg == Head(notifyMsgs[c])
           r == handleNotifyMsg(notifyMsg, c)
       IN  /\ notifyMsgs' = [notifyMsgs EXCEPT ![c] = Tail(@)]
           /\ acked' = [acked EXCEPT ![c] = Append(@, notifyMsg.handled)]
           /\ IF r.ok
              THEN /\ pending' = [pending EXCEPT ![c] = MatchReply(notifyMsg, r.err)]
                   /\ wpc' = [wpc EXCEPT ![c] = "writeMatch"]
                   /\ UNCHANGED <<chanClosed, ctxErr>>
              ELSE /\ wpc' = [wpc EXCEPT ![c] = "done"]
                   /\ chanClosed' = [chanClosed EXCEPT ![c] = TRUE]
                   /\ ctxErr' = [ctxErr EXCEPT ![c] = Cancelled(@, Canceled)]
                   /\ UNCHANGED pending
    /\ UNCHANGED <<callerVars, sub, replyChan, written, handlerVars, cfgVars>>

\* faulty variant: the message is acked only when it becomes a Reply
WorkerReceiveAckOnMatch(c) ==
    /\ wpc[c] = "select"
    /\ notifyMsgs[c] # <<>>
    /\ LET notifyMsg == Head(notifyMsgs[c])
           r == handleNotifyMsg(notifyMsg, c)
       IN  /\ notifyMsgs' = [notifyMsgs EXCEPT ![c] = Tail(@)]
           /\ IF r.ok
              THEN /\ pending' = [pending EXCEPT ![c] = MatchReply(notifyMsg, r.err)]
                   /\ wpc' = [wpc EXCEPT ![c] = "writeMatch"]
                   /\ acked' = [acked EXCEPT ![c] = Append(@, notifyMsg.handled)]
              ELSE UNCHANGED <<pending, wpc, acked>>
    /\ UNCHANGED <<callerVars, ctxErr, sub, replyChan, chanClosed, written,
                   handlerVars, cfgVars>>

\* select, case notifyMsg, ok := <-notifyMsgs with ok (lines 417, 426-433)
WorkerReceive(c) ==
    /\ wpc[c] = "select"
    /\ notifyMsgs[c] # <<>>
    /\ LET notifyMsg == Head(notifyMsgs[c])
           r == handleNotifyMsg(notifyMsg, c)
       IN  /\ notifyMsgs' = [notifyMsgs EXCEPT ![c] = Tail(@)]
           /\ acked' = [acked EXCEPT ![c] = Append(@, notifyMsg.handled)]
           /\ IF r.ok
              THEN /\ pending' = [pending EXCEPT ![c] = MatchReply(notifyMsg, r.err)]
                   /\ wpc' = [wpc EXCEPT ![c] = "writeMatch"]
              ELSE UNCHANGED <<pending, wpc>>
    /\ UNCHANGED <<callerVars, ctxErr, sub, replyChan, chanClosed, written,
                   handlerVars, cfgVars>>

\* faulty variant: the worker returns on a closed subscription without a Reply
WorkerSubscriberClosedNoReply(c) ==
    /\ wpc[c] = "select"
    /\ notifyMsgs[c] = <<>>
    /\ sub[c] = "closed"
    /\ wpc' = [wpc EXCEPT ![c] = "done"]
    /\ chanClosed' = [chanClosed EXCEPT ![c] = TRUE]
    /\ ctxErr' = [ctxErr EXCEPT ![c] = Cancelled(@, Canceled)]
    /\ UNCHANGED <<callerVars, sub, notifyMsgs, pending, replyChan,
                   written, acked, handlerVars, cfgVars>>

\* select, case notifyMsg, ok := <-notifyMsgs with !ok (lines 418-422)
WorkerSubscriberClosed(c) ==
    /\ wpc[c] = "select"
    /\ notifyMsgs[c] = <<>>
    /\ sub[c] = "closed"
    /\ pending' = [pending EXCEPT ![c] = TimeoutReply("subscriber closed")]
    /\ wpc' = [wpc EXCEPT ![c] = "writeFinal"]
    /\ UNCHANGED <<callerVars, ctxErr, sub, notifyMsgs, replyChan, chanClosed,
                   written, acked, handlerVars, cfgVars>>

\* replyChan <- reply (line 434), then continue: blocks while the buffer
\* is full
WorkerWriteMatch(c) ==
    /\ wpc[c] = "writeMatch"
    /\ Len(replyChan[c]) < ReplyChanCap
    /\ replyChan' = [replyChan EXCEPT ![c] = Append(@, pending[c])]
    /\ written' = [written EXCEPT ![c] = Append(@, pending[c])]
    /\ wpc' = [wpc EXCEPT ![c] = AfterMatchWrite]
    /\ IF AfterMatchWrite = "done"
       THEN /\ chanClosed' = [chanClosed EXCEPT ![c] = TRUE]
            /\ ctxErr' = [ctxErr EXCEPT ![c] = Cancelled(@, Canceled)]
       ELSE UNCHANGED <<chanClosed, ctxErr>>
    /\ UNCHANGED <<callerVars, sub, notifyMsgs, pending, acked, handlerVars, cfgVars>>

\* faulty variant: the return after the timeout Reply is missing
WorkerWriteFinalNoReturn(c) ==
    /\ wpc[c] = "writeFinal"
    /\ Len(replyChan[c]) < ReplyChanCap
    /\ replyChan' = [replyChan EXCEPT ![c] = Append(@, pending[c])]
    /\ written' = [written EXCEPT ![c] = Append(@, pending[c])]
    /\ wpc' = [wpc EXCEPT ![c] = "select"]
    /\ UNCHANGED <<chanClosed, ctxErr>>
    /\ UNCHANGED <<callerVars, sub, notifyMsgs, pending, acked, handlerVars, cfgVars>>

\* replyChan <- CommandReply{Err: ReplyTimeoutError{...}} (lines 413, 420),
\* return, and the deferred cancel() and close(replyChan)
WorkerWriteFinal(c) ==
    /\ wpc[c] = "writeFinal"
    /\ Len(replyChan[c]) < ReplyChanCap
    /\ replyChan' = [replyChan EXCEPT ![c] = Append(@, pending[c])]
    /\ written' = [written EXCEPT ![c] = Append(@, pending[c])]
    /\ wpc' = [wpc EXCEPT ![c] = "done"]
    /\ chanClosed' = [chanClosed EXCEPT ![c] = TRUE]
    /\ ctxErr' = [ctxErr EXCEPT ![c] = Cancelled(@, Canceled)]
    /\ UNCHANGED <<callerVars, sub, notifyMsgs, pending, acked, handlerVars, cfgVars>>

\* ------------------------------------------------------- the handler side
\* faulty variant: the notification carries the flag but not the handler's message
NewNotificationNoMessage(handleErr) ==
    [HasError |-> ~handleErr.isNil,
     Error    |-> IF handleErr.isNil THEN "" ELSE "handler error",
     Result   |-> ""]

\* OnCommandProcessed, lines 455-459: the notification of a handler outcome
NewNotification(handleErr) ==
    [HasError |-> ~handleErr.isNil,
     Error    |-> IF handleErr.isNil THEN "" ELSE handleErr.text,
     Result   |-> ""]

\* The backend of a handler with a result carries the marshaled
\* HandlerResult in the notification.
WithHandlerResult(notification, handlerResult) ==
    [notification EXCEPT !.Result = handlerResult]

\* faulty variant: the handled-command-uuid metadata is left unset
SetHandledCommandUuidUnset(payload, cmdMsg) ==
    [handled |-> "", payload |-> payload]

\* line 467: the notification is stamped with the uuid of the command
SetHandledCommandUuid(payload, cmdMsg) ==
    [handled |-> cmdMsg.uuid, payload |-> payload]

FailSteps == {"none", "marshal", "modify", "topic", "publish"}

\* faulty variant: the marker is not looked at
NotifyWhenExecutedAlways(cmdMsg) ==
    TRUE

\* OnCommandProcessed, line 447: the command carries the marker
NotifyWhenExecuted(cmdMsg) ==
    cmdMsg.notify

\* faulty variant: the handler's error is returned after the publish
OnCommandProcessedReturnsHandleErr(cmdMsg, handlerResult, handleErr, fail) ==
    IF ~NotifyWhenExecuted(cmdMsg)
    THEN [err |-> Nil, published |-> FALSE, msg |-> NoMsg, calls |-> {}]
    ELSE LET notification == WithHandlerResult(NewNotification(handleErr), handlerResult)
             notificationMsg == SetHandledCommandUuid(Marshal(notification), cmdMsg)
         IN  CASE fail = "marshal" ->
                    [err |-> GoErr("cannot marshal request reply notification"),
                     published |-> FALSE, msg |-> NoMsg, calls |-> {"marshal"}]
               [] fail = "modify" ->
                    [err |-> GoErr("cannot modify notification message"),
                     published |-> FALSE, msg |-> NoMsg,
                     calls |-> {"marshal", "modify"}]
               [] fail = "topic" ->
                    [err |-> GoErr("cannot generate request/reply notify topic"),
                     published |-> FALSE, msg |-> NoMsg,
                     calls |-> {"marshal", "modify", "topic"}]
               [] fail = "publish" ->
                    [err |-> GoErr("cannot publish command executed message"),
                     published |-> FALSE, msg |-> NoMsg,
                     calls |-> {"marshal", "modify", "topic", "publish"}]
               [] OTHER ->
                    [err |-> handleErr, published |-> TRUE, msg |-> notificationMsg,
                     calls |-> {"marshal", "modify", "topic", "publish"}]

\* OnCommandProcessed: what it returns, whether it publishes, the
\* notification message, and the collaborators it called. `fail` is the
\* protocol step that fails, if any.
OnCommandProcessed(cmdMsg, handlerResult, handleErr, fail) ==
    IF ~NotifyWhenExecuted(cmdMsg)
    THEN [err |-> Nil, published |-> FALSE, msg |-> NoMsg, calls |-> {}]
    ELSE LET notification == WithHandlerResult(NewNotification(handleErr), handlerResult)
             notificationMsg == SetHandledCommandUuid(Marshal(notification), cmdMsg)
         IN  CASE fail = "marshal" ->
                    [err |-> GoErr("cannot marshal request reply notification"),
                     published |-> FALSE, msg |-> NoMsg, calls |-> {"marshal"}]
               [] fail = "modify" ->
                    [err |-> GoErr("cannot modify notification message"),
                     published |-> FALSE, msg |-> NoMsg,
                     calls |-> {"marshal", "modify"}]
               [] fail = "topic" ->
                    [err |-> GoErr("cannot generate request/reply notify topic"),
                     published |-> FALSE, msg |-> NoMsg,
                     calls |-> {"marshal", "modify", "topic"}]
               [] fail = "publish" ->
                    [err |-> GoErr("cannot publish command executed message"),
                     published |-> FALSE, msg |-> NoMsg,
                     calls |-> {"marshal", "modify", "topic", "publish"}]
               [] OTHER ->
                    [err |-> Nil, published |-> TRUE, msg |-> notificationMsg,
                     calls |-> {"marshal", "modify", "topic", "publish"}]

\* faulty variant: a missing original message is not reported
originalCommandMsgFromCtxNoError(inCtx) ==
    Nil

\* originalCommandMsgFromCtx: an error when the context does not carry the
\* original message
originalCommandMsgFromCtx(inCtx) ==
    IF inCtx THEN Nil ELSE GoErr("original message not found in context")

\* result of a handler without a result: struct{}
NoResult == "{}"

\* faulty variant: a failed handler is reported to the consumer, not notified
NewCommandHandlerWithResultSkipOnError(cmdMsg, resp, handlerErr, inCtx, fail) ==
    LET err == originalCommandMsgFromCtx(inCtx) IN
    IF ~err.isNil \/ ~handlerErr.isNil
    THEN [ret |-> IF ~err.isNil THEN err ELSE handlerErr, ocp |-> 0,
          resp |-> resp, handlerErr |-> handlerErr,
          published |-> FALSE, msg |-> NoMsg, calls |-> {}]
    ELSE LET r == OnCommandProcessed(cmdMsg, resp, handlerErr, fail) IN
         [ret |-> r.err, ocp |-> 1, resp |-> resp, handlerErr |-> handlerErr,
          published |-> r.published, msg |-> r.msg, calls |-> r.calls]

\* The handler NewCommandHandlerWithResult returns, applied to one command
\* message: handleFunc has returned (resp, handlerErr).
NewCommandHandlerWithResult(cmdMsg, resp, handlerErr, inCtx, fail) ==
    LET err == originalCommandMsgFromCtx(inCtx) IN
    IF ~err.isNil
    THEN [ret |-> err, ocp |-> 0, resp |-> resp, handlerErr |-> handlerErr,
          published |-> FALSE, msg |-> NoMsg, calls |-> {}]
    ELSE LET r == OnCommandProcessed(cmdMsg, resp, handlerErr, fail) IN
         [ret |-> r.err, ocp |-> 1, resp |-> resp, handlerErr |-> handlerErr,
          published |-> r.published, msg |-> r.msg, calls |-> r.calls]

\* The handler NewCommandHandler returns: handleFunc has returned handlerErr.
NewCommandHandler(cmdMsg, handlerErr, inCtx, fail) ==
    LET err == originalCommandMsgFromCtx(inCtx) IN
    IF ~err.isNil
    THEN [ret |-> err, ocp |-> 0, resp |-> NoResult, handlerErr |-> handlerErr,
          published |-> FALSE, msg |-> NoMsg, calls |-> {}]
    ELSE LET r == OnCommandProcessed(cmdMsg, NoResult, handlerErr, fail) IN
         [ret |-> r.err, ocp |-> 1, resp |-> NoResult, handlerErr |-> handlerErr,
          published |-> r.published, msg |-> r.msg, calls |-> r.calls]

\* The effect of one run of a wrapped handler on a command of the bus.
Handled(cmdMsg, h) ==
    /\ bus' = bus \ {cmdMsg}
    /\ notifyMsgs' = IF h.published
                     THEN Publish(GenerateReplyNotificationTopic(cmdMsg.uuid), h.msg)
                     ELSE notifyMsgs
    /\ handlerLog' = IF cmdMsg.uuid \in callers
                     THEN [handlerLog EXCEPT ![cmdMsg.uuid] = Append(@, h)]
                     ELSE handlerLog
    /\ UNCHANGED <<callerVars, ctxErr, sub, workerVars, foreignSent, cfgVars>>

\* What the handler functions return. The handlers of the callers' commands
\* range over every result and error; the handlers of other processes'
\* commands, whose notifications the listeners only filter out, over fewer.
HandlerResults(cmdMsg) ==
    IF cmdMsg.uuid \in callers THEN Results ELSE {"r1"}

HandlerErrs(cmdMsg) ==
    IF cmdMsg.uuid \in callers THEN HandleErrs ELSE {Nil, GoErr("e1")}

\* The command processor runs a handler with a result on a command.
HandleCommandWithResult ==
    \E cmdMsg \in bus, inCtx \in BOOLEAN, fail \in FailSteps :
      \E resp \in HandlerResults(cmdMsg), handlerErr \in HandlerErrs(cmdMsg) :
        /\ Handled(cmdMsg, NewCommandHandlerWithResult(cmdMsg, resp, handlerErr, inCtx, fail))
        /\ UNCHANGED lastRun

\* The command processor runs a handler without a result on a command.
HandleCommand ==
    \E cmdMsg \in bus, inCtx \in BOOLEAN, fail \in FailSteps :
      \E handlerErr \in HandlerErrs(cmdMsg) :
        /\ Handled(cmdMsg, NewCommandHandler(cmdMsg, handlerErr, inCtx, fail))
        /\ UNCHANGED lastRun

\* One handler run with its inputs and its outcome kept for inspection.
Observed(cmdMsg, inCtx, fail, h) ==
    /\ Handled(cmdMsg, h)
    /\ lastRun' = [ran |-> TRUE, cmdMsg |-> cmdMsg, inCtx |-> inCtx,
                   fail |-> fail, h |-> h]

\* HandleCommandWithResult, observed
HandleCommandWithResultObserved ==
    \E cmdMsg \in bus, inCtx \in BOOLEAN, fail \in FailSteps :
      \E resp \in HandlerResults(cmdMsg), handlerErr \in HandlerErrs(cmdMsg) :
        Observed(cmdMsg, inCtx, fail,
                 NewCommandHandlerWithResult(cmdMsg, resp, handlerErr, inCtx, fail))

\* HandleCommand, observed
HandleCommandObserved ==
    \E cmdMsg \in bus, inCtx \in BOOLEAN, fail \in FailSteps :
      \E handlerErr \in HandlerErrs(cmdMsg) :
        Observed(cmdMsg, inCtx, fail,
                 NewCommandHandler(cmdMsg, handlerErr, inCtx, fail))

\* Another process sends a command on the same bus; it may or may not
\* expect a notification.
ForeignSend ==
    /\ foreignSent < foreignMax
    /\ \E u \in CommandUUIDs \ callers, notify \in BOOLEAN :
         LET cmdMsg == [uuid |-> u, opId |-> u, notify |-> notify] IN
         /\ cmdMsg \notin bus
         /\ bus' = bus \cup {cmdMsg}
    /\ foreignSent' = foreignSent + 1
    /\ UNCHANGED <<callerVars, ctxErr, sub, notifyMsgs, workerVars, handlerLog, lastRun, cfgVars>>

\* ------------------------------------------------ the event group processor
GroupNames == {"g1", "g2"}
EventNames == {"A", "B"}

\* the handler lists a call may pass: handlers ...GroupEventHandler, each
\* handler identified by the name of its event
RECURSIVE HandlerLists(_)
HandlerLists(n) ==
    IF n = 0 THEN {<<>>}
    ELSE HandlerLists(n - 1) \cup
         {Append(l, ev) : l \in {k \in HandlerLists(n - 1) : Len(k) = n - 1},
                          ev \in EventNames}

\* The group is recorded the first time a registration of its name succeeds.
FirstAdded(handlerName, handlers, err) ==
    IF err.isNil /\ handlerName \notin DOMAIN firstAdded
    THEN firstAdded @@ (handlerName :> handlers)
    ELSE firstAdded

\* faulty variant: a registered group is overwritten
AddHandlersGroupOverwrite(handlerName, handlers) ==
    /\ LET err == IF Len(handlers) = 0
                  THEN GoErr("no handlers provided")
                  ELSE Nil
       IN  /\ groupEventHandlers' =
                 IF err.isNil
                 THEN (handlerName :> handlers) @@ groupEventHandlers
                 ELSE groupEventHandlers
           /\ addResult' = [called |-> TRUE, handlerName |-> handlerName,
                            handlers |-> handlers, err |-> err]
           /\ firstAdded' = FirstAdded(handlerName, handlers, err)
    /\ UNCHANGED <<requestReplyVars, groupConfig, routeResult>>

\* EventGroupProcessor.AddHandlersGroup(handlerName, handlers...)
AddHandlersGroup(handlerName, handlers) ==
    /\ LET err == IF Len(handlers) = 0
                  THEN GoErr("no handlers provided")
                  ELSE IF handlerName \in DOMAIN groupEventHandlers
                  THEN GoErr("event handler group already exists")
                  ELSE Nil
       IN  /\ groupEventHandlers' =
                 IF err.isNil
                 THEN (handlerName :> handlers) @@ groupEventHandlers
                 ELSE groupEventHandlers
           /\ addResult' = [called |-> TRUE, handlerName |-> handlerName,
                            handlers |-> handlers, err |-> err]
           /\ firstAdded' = FirstAdded(handlerName, handlers, err)
    /\ UNCHANGED <<requestReplyVars, groupConfig, routeResult>>

\* a payload that is not a marshaled RequestReplyNotification
UndecodablePayload == <<"?">>

\* Another process publishes on the reply topic a message the configured
\* marshaler cannot decode, with any handled-command-uuid.
ForeignPublish ==
    /\ foreignSent < foreignMax
    /\ \E u \in CommandUUIDs :
         notifyMsgs' = Publish(GenerateReplyNotificationTopic(u),
                               [handled |-> u, payload |-> UndecodablePayload])
    /\ notifyMsgs' # notifyMsgs
    /\ foreignSent' = foreignSent + 1
    /\ UNCHANGED <<callerVars, ctxErr, sub, workerVars, bus, handlerLog, lastRun, cfgVars>>

\* the event names of incoming messages: those of the handlers and one
\* that no handler has
MessageEventNames == EventNames \cup {"C"}

\* the loop of the handler function from handler i on: handlers of other
\* events are passed over; the first handler of the message's event gets
\* the message, unless the payload does not unmarshal into its event
RECURSIVE HandlerLoop(_, _, _, _, _)
HandlerLoop(handlers, i, config, msg, handleErr) ==
    IF i > Len(handlers)
    THEN [invoked |-> <<>>,
          ret |-> IF ~config.AckOnUnknownEvent
                  THEN GoErr("no handler found for event")
                  ELSE Nil]
    ELSE IF msg.eventName # handlers[i]
    THEN HandlerLoop(handlers, i + 1, config, msg, handleErr)
    ELSE IF ~msg.decodable
    THEN [invoked |-> <<>>, ret |-> GoErr("cannot unmarshal")]
    ELSE [invoked |-> << [handler |-> i,
                          via |-> IF config.OnGroupHandle
                                  THEN "OnGroupHandle" ELSE "Handle"] >>,
          ret |-> handleErr]

\* faulty variant: the last handler of the message's event gets the message
routerHandlerGroupFuncLast(handlers, config, msg, handleErr) ==
    LET matching == {i \in 1..Len(handlers) : handlers[i] = msg.eventName} IN
    IF matching = {} \/ ~msg.decodable
    THEN HandlerLoop(handlers, 1, config, msg, handleErr)
    ELSE [invoked |-> << [handler |-> CHOOSE i \in matching : \A j \in matching : j <= i,
                          via |-> IF config.OnGroupHandle
                                  THEN "OnGroupHandle" ELSE "Handle"] >>,
          ret |-> handleErr]

\* The function routerHandlerGroupFunc returns, applied to one message: the
\* handlers it invoked (by position in the group, and whether through
\* Handler.Handle or the OnGroupHandle hook) and the error it returns.
\* handleErr is what the invoked handler or hook returns.
routerHandlerGroupFunc(handlers, config, msg, handleErr) ==
    HandlerLoop(handlers, 1, config, msg, handleErr)

\* The router gives a message of the group's topic to the handler function
\* of a registered group.
HandleGroupMessage ==
    /\ \E groupName \in DOMAIN groupEventHandlers, eventName \in MessageEventNames,
          decodable \in BOOLEAN, handleErr \in {Nil, GoErr("e1")} :
         LET msg == [eventName |-> eventName, decodable |-> decodable]
             r == routerHandlerGroupFunc(groupEventHandlers[groupName], groupConfig,
                                         msg, handleErr)
         IN  routeResult' = [routed |-> TRUE, groupName |-> groupName, msg |-> msg,
                             handleErr |-> handleErr,
                             invoked |-> r.invoked, ret |-> r.ret]
    /\ UNCHANGED <<requestReplyVars, groupEventHandlers, addResult, firstAdded,
                   groupConfig>>

\* ------------------------------------------------------ the specification
Next ==
    \/ \E c \in CommandUUIDs : SendWithReplyListen(c)
    \/ \E c \in CommandUUIDs : SendWithReplySend(c)
    \/ \E c \in CommandUUIDs : Cancel(c)
    \/ \E c \in CommandUUIDs : Timeout(c)
    \/ \E c \in CommandUUIDs : SubscriberClosed(c)
    \/ \E c \in CommandUUIDs : CallerRead(c)
    \/ \E c \in CommandUUIDs : WorkerCtxDone(c)
    \/ \E c \in CommandUUIDs : WorkerReceive(c)
    \/ \E c \in CommandUUIDs : WorkerSubscriberClosed(c)
    \/ \E c \in CommandUUIDs : WorkerWriteMatch(c)
    \/ \E c \in CommandUUIDs : WorkerWriteFinal(c)
    \/ HandleCommandWithResult
    \/ HandleCommand
    \/ ForeignSend

Spec == Init /\ [][Next]_vars

\* The Go scheduler runs every runnable goroutine: each step of the worker
\* that stays enabled is eventually taken. Nothing obliges the caller to
\* read or to cancel, the handler to run, or the transport to act.
WorkerFairness ==
    \A c \in CommandUUIDs :
        /\ WF_vars(WorkerCtxDone(c))
        /\ WF_vars(WorkerReceive(c))
        /\ WF_vars(WorkerSubscriberClosed(c))
        /\ WF_vars(WorkerWriteMatch(c))
        /\ WF_vars(WorkerWriteFinal(c))

FairSpec == InitLive /\ [][Next]_vars /\ WorkerFairness

\* The call with, in addition, messages on the reply topic that do not decode.
UndecodableNext == Next \/ ForeignPublish

UndecodableSpec == Init /\ [][UndecodableNext]_vars

\* Two concurrent SendWithReply calls, X and Y, on the same backend and the
\* same reply topic; no other process sends commands.
InitConcurrent ==
    /\ callers = {"X", "Y"}
    /\ InitVars
    /\ foreignMax = 0
    /\ groupConfig = DefaultGroupConfig

\* The handlers of the two operations return different results, so that the
\* Reply of one operation cannot be taken for the Reply of the other.
ResultOf(commandUUID) == IF commandUUID = "X" THEN "r1" ELSE "r2"

\* The command processor runs the handler of one of the two operations; the
\* notification is published.
HandleConcurrentCommand ==
    \E cmdMsg \in bus, handlerErr \in {Nil, GoErr("e1")} :
        /\ Handled(cmdMsg, NewCommandHandlerWithResult(cmdMsg, ResultOf(cmdMsg.uuid),
                                                        handlerErr, TRUE, "none"))
        /\ UNCHANGED lastRun

ConcurrentNext ==
    \/ \E c \in CommandUUIDs : SendWithReplyListen(c)
    \/ \E c \in CommandUUIDs : SendWithReplySend(c)
    \/ \E c \in CommandUUIDs : Cancel(c)
    \/ \E c \in CommandUUIDs : Timeout(c)
    \/ \E c \in CommandUUIDs : SubscriberClosed(c)
    \/ \E c \in CommandUUIDs : CallerRead(c)
    \/ \E c \in CommandUUIDs : WorkerCtxDone(c)
    \/ \E c \in CommandUUIDs : WorkerReceive(c)
    \/ \E c \in CommandUUIDs : WorkerSubscriberClosed(c)
    \/ \E c \in CommandUUIDs : WorkerWriteMatch(c)
    \/ \E c \in CommandUUIDs : WorkerWriteFinal(c)
    \/ HandleConcurrentCommand

ConcurrentSpec == InitConcurrent /\ [][ConcurrentNext]_vars

\* The event group processor: any sequence of AddHandlersGroup calls.
GroupNext ==
    \/ \E handlerName \in GroupNames, handlers \in HandlerLists(MaxHandlers) :
         AddHandlersGroup(handlerName, handlers)
    \/ HandleGroupMessage

\* a processor with any configuration of AckOnUnknownEvent and OnGroupHandle
InitGroup ==
    /\ callers = {"X"}
    /\ InitVars
    /\ ~timeoutCfg
    /\ foreignMax = MaxForeign
    /\ groupConfig \in [AckOnUnknownEvent : BOOLEAN, OnGroupHandle : BOOLEAN]

GroupSpec == InitGroup /\ [][GroupNext]_vars

\* The handler side alone: commands are sent, by SendWithReply and by other
\* processes, and every run of a wrapped handler on them is observed.
HandlerNext ==
    \/ \E c \in CommandUUIDs : SendWithReplyListen(c)
    \/ \E c \in CommandUUIDs : SendWithReplySend(c)
    \/ ForeignSend
    \/ HandleCommandWithResultObserved
    \/ HandleCommandObserved

HandlerSpec == Init /\ [][HandlerNext]_vars

\* ------------------------------------------------------------ the claims
IsTimeoutReply(r) == r.Err.type = "ReplyTimeoutError"
IsMatchReply(r) == ~IsTimeoutReply(r)

MatchReplies(c) == SelectSeq(written[c], IsMatchReply)
TimeoutReplies(c) == SelectSeq(written[c], IsTimeoutReply)

\* C1 (as stated): at most one Reply is ever written to the delivery channel
\* of a call; there is no second Reply, neither a second match nor a timeout
\* Reply after a match.
C1_AtMostOneReply ==
    \A c \in CommandUUIDs : Len(written[c]) <= 1

\* C1 (amended): at most one timeout Reply is ever written to the delivery
\* channel of a call; it is the last Reply written, the channel is closed
\* with it and the worker has terminated; every Reply written before it is
\* the Reply of a matched notification, and the channel stays open until then.
C1_OneFinalReply ==
    \A c \in CommandUUIDs :
        /\ Len(TimeoutReplies(c)) <= 1
        /\ \A i \in 1..Len(written[c]) :
              IsTimeoutReply(written[c][i]) => i = Len(written[c])
        /\ chanClosed[c] <=> Len(TimeoutReplies(c)) = 1
        /\ chanClosed[c] <=> wpc[c] = "done"
        /\ Len(replyChan[c]) <= ReplyChanCap

\* a call that has delivered the Reply of a match and then the timeout Reply
C1_Witness ==
    /\ Len(written["X"]) = 2
    /\ IsMatchReply(written["X"][1])
    /\ IsTimeoutReply(written["X"][2])
    /\ chanClosed["X"]

\* C2: every Reply a listener for id X writes is derived from a notification
\* whose handled-command-uuid is X, or is a timeout Reply that carries no
\* notification; notifications of other ids never become a Reply.
C2_OnlyOwnNotifications ==
    \A c \in CommandUUIDs :
        /\ \A i \in 1..Len(written[c]) :
              LET r == written[c][i] IN
              IF IsTimeoutReply(r) THEN r.ReplyMsg = NoMsg
              ELSE r.ReplyMsg.handled = c
        /\ wpc[c] = "writeMatch" => pending[c].ReplyMsg.handled = c
        /\ Len(MatchReplies(c)) + (IF wpc[c] = "writeMatch" THEN 1 ELSE 0)
              = Len(SelectSeq(acked[c], LAMBDA id : id = c))

\* the listener of X has acked a notification of Y and written the Reply of
\* the notification of X
C2_Witness ==
    /\ \E i \in 1..Len(acked["X"]) : acked["X"][i] = "Y"
    /\ Len(MatchReplies("X")) = 1

\* C3: a command of a call is on the bus, or has been handed to the bus, only
\* once the subscription of the call exists; no notification of the call is
\* published before its subscription exists.
C3_SubscribedBeforePublish ==
    \A c \in callers :
        /\ sent[c] > 0 => sub[c] # "none" /\ wpc[c] # "none"
        /\ (\E cmdMsg \in bus : cmdMsg.uuid = c) => sub[c] # "none"
        /\ Len(handlerLog[c]) > 0 => sub[c] # "none"
        /\ pc[c] \in {"idle", "errListen"} => sent[c] = 0

\* the command was published, handled, and the notification reached the
\* subscription that was opened before
C3_Witness ==
    /\ sent["X"] = 1
    /\ Len(handlerLog["X"]) = 1
    /\ handlerLog["X"][1].published
    /\ notifyMsgs["X"] # <<>>
    /\ Head(notifyMsgs["X"]).handled = "X"

\* the worker is blocked on a write to the full replyChan
Blocked(c) ==
    /\ wpc[c] \in {"writeMatch", "writeFinal"}
    /\ Len(replyChan[c]) = ReplyChanCap

HasMatching(c) ==
    \E i \in 1..Len(notifyMsgs[c]) : notifyMsgs[c][i].handled = c

Last(seq) == seq[Len(seq)]

OnBus(c) == \E cmdMsg \in bus : cmdMsg.uuid = c

\* C5: when the listening setup fails, SendWithReply returns an error, nothing
\* was or will be sent, there is no reply channel and no worker or
\* subscription is left, and the context of the call is cancelled.
C5_ListenFailure ==
    \A c \in callers :
        pc[c] = "errListen" =>
            /\ sent[c] = 0
            /\ ~OnBus(c)
            /\ handlerLog[c] = <<>>
            /\ wpc[c] = "none"
            /\ sub[c] = "none"
            /\ replyChan[c] = <<>> /\ written[c] = <<>> /\ ~chanClosed[c]
            /\ ctxErr[c] = Canceled

\* the listening setup of X has failed
C5_Witness ==
    /\ pc["X"] = "errListen"
    /\ sent["X"] = 0
    /\ foreignSent > 0

\* C6: when the send fails after the listening setup succeeded, SendWithReply
\* returns with the listening context cancelled and nothing sent, and the
\* worker that was started eventually writes its timeout Reply, closes the
\* channel and terminates.
C6_SendFailure ==
    /\ [](\A c \in callers :
            pc[c] = "errSend" =>
                /\ ctxErr[c] # ""
                /\ sent[c] = 0 /\ ~OnBus(c)
                /\ wpc[c] # "none"
                /\ MatchReplies(c) = <<>>)
    /\ \A c \in CommandUUIDs :
          (pc[c] = "errSend") ~> (wpc[c] = "done" /\ chanClosed[c])

\* the send of X failed and its worker has terminated on the cancellation
C6_Witness ==
    /\ pc["X"] = "errSend"
    /\ wpc["X"] = "done"
    /\ written["X"] = << TimeoutReply(Canceled) >>

\* C7: when the listening context expires and the listener receives no
\* matching notification, the listener writes exactly one Reply, a timeout
\* error carrying the cause of the expiry, closes the channel and terminates;
\* an expired context never leaves the channel without a Reply; without a
\* configured ListenForReplyTimeout the cause is never the deadline.
C7_TimeoutReply ==
    /\ [](\A c \in CommandUUIDs :
            (wpc[c] = "done" /\ MatchReplies(c) = <<>>) =>
                /\ Len(written[c]) = 1
                /\ IsTimeoutReply(written[c][1])
                /\ written[c][1].Err.text \in {ctxErr[c], "subscriber closed"}
                /\ ctxErr[c] \in {Canceled, DeadlineExceeded}
                /\ chanClosed[c])
    /\ [](\A c \in CommandUUIDs :
            /\ ctxErr[c] = DeadlineExceeded => timeoutCfg
            /\ \A i \in 1..Len(written[c]) :
                  written[c][i].Err.text = DeadlineExceeded => timeoutCfg
            /\ (wpc[c] \in {"writeFinal", "done"} /\ sub[c] = "open")
                  => ctxErr[c] # "")
    /\ \A c \in CommandUUIDs :
          (ctxErr[c] # "" /\ wpc[c] # "none")
              ~> (wpc[c] = "done" \/ MatchReplies(c) # <<>>)

\* no maximum wait is configured, the command was sent, and the cancellation
\* ended the wait with the one timeout Reply
C7_Witness ==
    /\ ~timeoutCfg
    /\ pc["X"] = "returned"
    /\ sub["X"] = "open"
    /\ wpc["X"] = "done"
    /\ chanClosed["X"]
    /\ written["X"] = << TimeoutReply(Canceled) >>

\* the Result a Reply carries: the result unmarshaled from its notification
ReplyResult(r) == Unmarshal(r.ReplyMsg.payload).n.Result

Mismatched(c) == SelectSeq(acked[c], LAMBDA id : id # c)

\* C8: a notification with another handled-command-uuid never terminates the
\* listener and writes nothing: while the context is not done and the
\* subscription is open the worker is running whatever it has acked, it stops
\* only with the timeout Reply of an expired context or closed subscription,
\* and a matching notification received after mismatches becomes the Reply
\* the worker writes next, into an empty channel.
C8_MismatchesSkipped ==
    /\ [](\A c \in CommandUUIDs :
            /\ (wpc[c] # "none" /\ ctxErr[c] = "" /\ sub[c] = "open")
                  => wpc[c] \in {"select", "writeMatch"}
            /\ wpc[c] \in {"writeFinal", "done"} =>
                  /\ IsTimeoutReply(pending[c])
                  /\ \/ pending[c].Err.text = ctxErr[c]
                     \/ pending[c].Err.text = "subscriber closed" /\ sub[c] = "closed"
            /\ (wpc[c] = "writeMatch" /\ MatchReplies(c) = <<>>) => replyChan[c] = <<>>
            /\ Len(Mismatched(c)) = Len(acked[c]) =>
                  (MatchReplies(c) = <<>> /\ wpc[c] # "writeMatch"))
    /\ [][\A c \in CommandUUIDs :
            (acked'[c] # acked[c] /\ Last(acked'[c]) # c) =>
                /\ wpc'[c] = "select"
                /\ written'[c] = written[c] /\ replyChan'[c] = replyChan[c]
                /\ chanClosed'[c] = chanClosed[c] /\ sub'[c] = sub[c]]_vars
    /\ [][\A c \in CommandUUIDs :
            (acked'[c] # acked[c] /\ Last(acked'[c]) = c) =>
                /\ wpc'[c] = "writeMatch"
                /\ pending'[c].ReplyMsg = Head(notifyMsgs[c])]_vars

\* after two mismatched notifications the matching one was delivered
C8_Witness ==
    /\ acked["X"] = << "Y", "Y", "X" >>
    /\ Len(written["X"]) = 1
    /\ written["X"][1].ReplyMsg.handled = "X"
    /\ wpc["X"] = "select"
    /\ ctxErr["X"] = ""

LogEntries(c) == {handlerLog[c][i] : i \in 1..Len(handlerLog[c])}

\* C9: for a command of a caller, a handler run whose OnCommandProcessed
\* succeeds publishes a notification whose error flag is set exactly when the
\* handler error is non-nil and whose message is the handler's message; the
\* Reply of that notification carries CommandHandlerError with exactly that
\* message when the flag is set and no error otherwise, whatever the result.
C9_HandlerError ==
    \A c \in callers :
        /\ \A h \in LogEntries(c) :
              /\ (h.ocp = 1 /\ h.ret.isNil) <=> h.published
              /\ h.published =>
                    LET n == Unmarshal(h.msg.payload).n IN
                    /\ n.HasError <=> ~h.handlerErr.isNil
                    /\ n.HasError => n.Error = h.handlerErr.text
        /\ \A i \in 1..Len(written[c]) :
              LET r == written[c][i] IN
              IsMatchReply(r) =>
                  \E h \in LogEntries(c) :
                      /\ h.published /\ h.msg = r.ReplyMsg
                      /\ r.Err = IF h.handlerErr.isNil THEN NoReplyErr
                                 ELSE CommandHandlerError(h.handlerErr)

\* the handler returned a result together with the error e2, and the caller's
\* channel got the handler error e2
C9_Witness ==
    /\ Len(handlerLog["X"]) = 1
    /\ handlerLog["X"][1].resp = "r1"
    /\ handlerLog["X"][1].handlerErr = GoErr("e2")
    /\ Len(written["X"]) >= 1
    /\ written["X"][1].Err = CommandHandlerError(GoErr("e2"))

RanOnCommandProcessed(marked) ==
    /\ lastRun.ran
    /\ lastRun.h.ocp = 1
    /\ lastRun.cmdMsg.notify = marked

\* The step is a handler run that removes cmdMsg from the bus.
RunOf(cmdMsg) == cmdMsg \in bus /\ bus' = bus \ {cmdMsg}

\* C12: on a command without the marker OnCommandProcessed does nothing: it
\* publishes nothing, calls neither the marshaler, the modify hook, the topic
\* generator nor the publisher, and returns no error, whatever the handler
\* returned and whichever step would have failed.
C12_NoOpWithoutMarker ==
    /\ [](RanOnCommandProcessed(FALSE) =>
            /\ lastRun.h.ret.isNil
            /\ ~lastRun.h.published
            /\ lastRun.h.calls = {})
    /\ [][\A cmdMsg \in bus :
            (RunOf(cmdMsg) /\ ~cmdMsg.notify) => notifyMsgs' = notifyMsgs]_vars

\* a run with a handler error and a failing publish on an unmarked command,
\* while the listener of X is subscribed
C12_Witness ==
    /\ RanOnCommandProcessed(FALSE)
    /\ ~lastRun.h.handlerErr.isNil
    /\ lastRun.fail = "publish"
    /\ sub["X"] = "open"

\* C13: on a marked command OnCommandProcessed returns an error exactly when a
\* protocol step (marshal, modify hook, topic, publish) fails; a handler error
\* only travels inside the notification; and a failing step means no
\* notification is published.
C13_ErrorIffStepFails ==
    /\ [](RanOnCommandProcessed(TRUE) =>
            /\ lastRun.h.ret.isNil <=> lastRun.fail = "none"
            /\ lastRun.h.published <=> lastRun.fail = "none"
            /\ lastRun.h.published =>
                 /\ lastRun.h.msg.handled = lastRun.cmdMsg.uuid
                 /\ Unmarshal(lastRun.h.msg.payload).err.isNil
                 /\ Unmarshal(lastRun.h.msg.payload).n.HasError
                      <=> ~lastRun.h.handlerErr.isNil)
    /\ [][\A cmdMsg \in bus :
            (RunOf(cmdMsg) /\ lastRun' # lastRun /\ lastRun'.fail # "none")
                => notifyMsgs' = notifyMsgs]_vars

\* a marked command whose handler failed is notified without an error, and
\* the notification is in the queue of X's listener
C13_Witness ==
    /\ RanOnCommandProcessed(TRUE)
    /\ ~lastRun.h.handlerErr.isNil
    /\ lastRun.fail = "none"
    /\ lastRun.h.ret.isNil
    /\ Len(notifyMsgs["X"]) > 0
    /\ Last(notifyMsgs["X"]) = lastRun.h.msg

\* C14: when the context carries the original message, the wrapped handler
\* calls OnCommandProcessed exactly once, with the original message and what
\* the handler function returned, and returns what OnCommandProcessed returns.
C14_CompletionHookOnce ==
    /\ []((lastRun.ran /\ lastRun.inCtx) =>
            /\ lastRun.h.ocp = 1
            /\ LET r == OnCommandProcessed(lastRun.cmdMsg, lastRun.h.resp,
                                           lastRun.h.handlerErr, lastRun.fail)
               IN  /\ lastRun.h.ret = r.err
                   /\ lastRun.h.published = r.published
                   /\ lastRun.h.msg = r.msg
                   /\ lastRun.h.calls = r.calls)
    /\ [][\A cmdMsg \in bus :
            (RunOf(cmdMsg) /\ lastRun' # lastRun /\ lastRun'.inCtx) =>
                notifyMsgs' =
                    IF lastRun'.h.published
                    THEN Publish(GenerateReplyNotificationTopic(cmdMsg.uuid),
                                 lastRun'.h.msg)
                    ELSE notifyMsgs]_vars

\* a handler that returned a value and an error was notified once
C14_Witness ==
    /\ lastRun.ran
    /\ lastRun.inCtx
    /\ lastRun.h.ocp = 1
    /\ lastRun.h.resp = "r2"
    /\ ~lastRun.h.handlerErr.isNil
    /\ lastRun.h.published

\* C15: when the context does not carry the original message, the wrapped
\* handler returns an error, OnCommandProcessed is not called and nothing is
\* published, although the handler function has run.
C15_NoOriginalMessage ==
    /\ []((lastRun.ran /\ ~lastRun.inCtx) =>
            /\ ~lastRun.h.ret.isNil
            /\ lastRun.h.ret = originalCommandMsgFromCtx(FALSE)
            /\ lastRun.h.ocp = 0
            /\ lastRun.h.calls = {}
            /\ ~lastRun.h.published)
    /\ [][\A cmdMsg \in bus :
            (RunOf(cmdMsg) /\ lastRun' # lastRun /\ ~lastRun'.inCtx)
                => notifyMsgs' = notifyMsgs]_vars

\* the handler of X's marked command ran without the original message in the
\* context while the listener of X was subscribed, and nothing was queued
C15_Witness ==
    /\ lastRun.ran
    /\ ~lastRun.inCtx
    /\ lastRun.cmdMsg.uuid = "X"
    /\ lastRun.cmdMsg.notify
    /\ lastRun.h.resp = "r1"
    /\ sub["X"] = "open"
    /\ notifyMsgs["X"] = <<>>

\* The variables of the call, the listener and the subscription of operation c.
CallState(c) ==
    <<pc[c], sent[c], ctxErr[c], sub[c], wpc[c], pending[c], replyChan[c],
      chanClosed[c], written[c], acked[c]>>

\* The step is one of operation d: of its caller, its context, its
\* subscription or its listener.
StepOf(d) == CallState(d)' # CallState(d) \/ Len(notifyMsgs'[d]) < Len(notifyMsgs[d])

\* C16: with two operations X and Y listening at once on one reply topic, each
\* listener receives both notifications and turns only the one of its own
\* operation into a Reply, with the error and the result of its own handler,
\* in whatever order the notifications arrive; and a step of one operation
\* leaves the call, the listener and the subscription queue of the other
\* untouched.
C16_ConcurrentIsolation ==
    /\ [](\A c \in callers :
            /\ Len(handlerLog[c]) <= 1
            /\ Len(MatchReplies(c)) <= Len(handlerLog[c])
            /\ Len(MatchReplies(c)) + (IF wpc[c] = "writeMatch" THEN 1 ELSE 0)
                 = Len(acked[c]) - Len(Mismatched(c))
            /\ \A i \in 1..Len(MatchReplies(c)) :
                 LET r == MatchReplies(c)[i] IN
                 /\ r.ReplyMsg = handlerLog[c][1].msg
                 /\ r.ReplyMsg.handled = c
                 /\ handlerLog[c][1].resp = ResultOf(c)
                 /\ r.Err = IF handlerLog[c][1].handlerErr.isNil
                            THEN NoReplyErr
                            ELSE CommandHandlerError(handlerLog[c][1].handlerErr))
    /\ [][\A c \in callers : \A d \in callers \ {c} :
            StepOf(d) =>
                /\ CallState(c)' = CallState(c)
                /\ notifyMsgs'[c] = notifyMsgs[c]]_vars

\* both listeners received Y's notification before X's, X's listener skipped
\* the first and Y's the second, and each delivered the Reply of its own
\* handler: a success for X, a handler error for Y
C16_Witness ==
    /\ acked["X"] = <<"Y", "X">>
    /\ acked["Y"] = <<"Y", "X">>
    /\ Len(MatchReplies("X")) = 1
    /\ Len(MatchReplies("Y")) = 1
    /\ MatchReplies("X")[1].Err = NoReplyErr
    /\ MatchReplies("X")[1].ReplyMsg = handlerLog["X"][1].msg
    /\ MatchReplies("Y")[1].Err = CommandHandlerError(GoErr("e1"))
    /\ MatchReplies("Y")[1].ReplyMsg = handlerLog["Y"][1].msg

\* C17: AddHandlersGroup returns an error and leaves the registered groups as
\* they are when it is called without handlers or with a registered name, and
\* registers the group otherwise; so every registered name maps to the
\* non-empty handler list of its first successful registration.
C17_GroupNamesUnique ==
    /\ [](/\ DOMAIN groupEventHandlers = DOMAIN firstAdded
          /\ \A handlerName \in DOMAIN groupEventHandlers :
               /\ groupEventHandlers[handlerName] = firstAdded[handlerName]
               /\ Len(groupEventHandlers[handlerName]) > 0)
    /\ [][addResult' # addResult =>
            IF \/ Len(addResult'.handlers) = 0
               \/ addResult'.handlerName \in DOMAIN groupEventHandlers
            THEN /\ ~addResult'.err.isNil
                 /\ groupEventHandlers' = groupEventHandlers
            ELSE /\ addResult'.err.isNil
                 /\ DOMAIN groupEventHandlers' =
                      DOMAIN groupEventHandlers \cup {addResult'.handlerName}
                 /\ groupEventHandlers'[addResult'.handlerName] = addResult'.handlers
                 /\ \A handlerName \in DOMAIN groupEventHandlers :
                      groupEventHandlers'[handlerName] = groupEventHandlers[handlerName]]_vars

\* a second registration of g1, with other handlers, was refused and g1 and
\* g2 still map to the lists they were registered with
C17_Witness ==
    /\ addResult.called
    /\ addResult.handlerName = "g1"
    /\ addResult.handlers = <<"B">>
    /\ ~addResult.err.isNil
    /\ DOMAIN groupEventHandlers = {"g1", "g2"}
    /\ groupEventHandlers["g1"] = <<"A", "B">>
    /\ groupEventHandlers["g2"] = <<"A">>

\* C18 (as stated): the worker never blocks on a write to the delivery
\* channel: whenever it is about to write a Reply, the one-slot channel is
\* empty, whether or not the caller reads.
C18_WriteNeverBlocks ==
    \A c \in callers :
        wpc[c] \in {"writeMatch", "writeFinal"} => replyChan[c] = <<>>

\* C19: when the transport closes the message stream of the subscription and
\* no matching notification has been received, the listener leaves its loop
\* through the closed-stream branch although the context is still live, writes
\* one Reply with a ReplyTimeoutError and no message, closes the delivery
\* channel and terminates.
C19_SubscriberClosed ==
    /\ [](\A c \in callers :
            (wpc[c] = "done" /\ MatchReplies(c) = <<>>) =>
                /\ Len(written[c]) = 1
                /\ IsTimeoutReply(written[c][1])
                /\ written[c][1].ReplyMsg = NoMsg
                /\ chanClosed[c]
                /\ written[c][1].Err.text = "subscriber closed" => sub[c] = "closed")
    /\ [][\A c \in callers :
            (/\ wpc[c] = "select" /\ wpc'[c] # "select"
             /\ sub[c] = "closed" /\ notifyMsgs[c] = <<>> /\ ctxErr[c] = "")
            => /\ wpc'[c] = "writeFinal"
               /\ pending'[c] = TimeoutReply("subscriber closed")]_vars
    /\ \A c \in CommandUUIDs :
         (/\ wpc[c] = "select" /\ sub[c] = "closed"
          /\ MatchReplies(c) = <<>> /\ ~HasMatching(c))
            ~> (/\ wpc[c] = "done" /\ chanClosed[c]
                /\ Len(written[c]) = 1 /\ IsTimeoutReply(written[c][1]))

\* without a timeout configured, after one notification of another operation,
\* the closed subscription ended the listener with its one Reply
C19_Witness ==
    /\ ~timeoutCfg
    /\ acked["X"] = <<"Y">>
    /\ wpc["X"] = "done"
    /\ chanClosed["X"]
    /\ written["X"] = <<TimeoutReply("subscriber closed")>>

\* The step is the listener of c taking a message from its subscription.
Reads(c) == wpc[c] = "select" /\ Len(notifyMsgs'[c]) < Len(notifyMsgs[c])

\* C20: every message the listener takes from its subscription is acked in
\* the same step, before the next message is taken or the listener ends,
\* whether it matches, belongs to another operation or does not decode; the
\* acks are exactly the messages taken, in order.
C20_AlwaysAcked ==
    /\ [][\A c \in callers :
            IF Reads(c)
            THEN /\ notifyMsgs'[c] = Tail(notifyMsgs[c])
                 /\ acked'[c] = Append(acked[c], Head(notifyMsgs[c]).handled)
            ELSE acked'[c] = acked[c]]_vars
    /\ [](\A c \in callers :
            Len(MatchReplies(c)) + (IF wpc[c] = "writeMatch" THEN 1 ELSE 0)
                <= Len(acked[c]))

\* the listener of X acked a notification of Y, one of X that does not
\* decode and one of X that became its Reply
C20_Witness ==
    /\ Len(acked["X"]) = 3
    /\ acked["X"][1] = "Y"
    /\ acked["X"][2] = "X"
    /\ acked["X"][3] = "X"
    /\ Len(MatchReplies("X")) = 1
    /\ notifyMsgs["X"] = <<>>

\* The positions, in the group the latest message was routed to, of the
\* handlers of the message's event.
Matching ==
    {i \in 1..Len(groupEventHandlers[routeResult.groupName]) :
        groupEventHandlers[routeResult.groupName][i] = routeResult.msg.eventName}

\* C21: the handler function of a group gives a message to at most one
\* handler: the first one, in registration order, of the message's event,
\* through Handler.Handle or, when configured, the OnGroupHandle hook, and
\* returns what that call returns. A message whose payload does not unmarshal
\* into the event of that handler reaches no handler and the function returns
\* an error. A message of an event no handler has reaches no handler, and the
\* function returns an error unless AckOnUnknownEvent is set, and nil then.
C21_FirstMatchingHandler ==
    routeResult.routed =>
        /\ routeResult.groupName \in DOMAIN groupEventHandlers
        /\ Len(routeResult.invoked) <= 1
        /\ Matching = {} =>
             /\ routeResult.invoked = <<>>
             /\ routeResult.ret.isNil <=> groupConfig.AckOnUnknownEvent
        /\ (Matching # {} /\ routeResult.msg.decodable) =>
             /\ Len(routeResult.invoked) = 1
             /\ routeResult.invoked[1].handler \in Matching
             /\ \A i \in Matching : routeResult.invoked[1].handler <= i
             /\ routeResult.invoked[1].via = "OnGroupHandle" <=> groupConfig.OnGroupHandle
             /\ routeResult.ret = routeResult.handleErr
        /\ (Matching # {} /\ ~routeResult.msg.decodable) =>
             /\ routeResult.invoked = <<>>
             /\ ~routeResult.ret.isNil

\* in a group of two handlers of event A, a message of A went to the first
\* one only, and its error was returned
C21_Witness ==
    /\ routeResult.routed
    /\ groupEventHandlers[routeResult.groupName] = <<"A", "A">>
    /\ routeResult.msg = [eventName |-> "A", decodable |-> TRUE]
    /\ routeResult.invoked = << [handler |-> 1, via |-> "Handle"] >>
    /\ routeResult.ret = GoErr("e1")

\* The message at the head of c's subscription carries c's id and a payload
\* that does not decode.
UndecodableMatch(c) ==
    /\ notifyMsgs[c] # <<>>
    /\ Head(notifyMsgs[c]).handled = c
    /\ ~Unmarshal(Head(notifyMsgs[c]).payload).err.isNil

\* C22: a notification with the expected handled-command-uuid whose payload
\* does not decode is acked and skipped like a mismatch: the step that takes
\* it writes and prepares no Reply, leaves the channel and the context as they
\* are and leaves the listener in its loop; no Reply ever carries the decode
\* error or an undecodable message.
C22_UndecodableSkipped ==
    /\ [][\A c \in callers :
            (Reads(c) /\ UndecodableMatch(c)) =>
                /\ acked'[c] = Append(acked[c], c)
                /\ wpc'[c] = "select"
                /\ written'[c] = written[c]
                /\ pending'[c] = pending[c]
                /\ replyChan'[c] = replyChan[c]
                /\ chanClosed'[c] = chanClosed[c]
                /\ ctxErr'[c] = ctxErr[c]]_vars
    /\ [](\A c \in callers : \A i \in 1..Len(written[c]) :
            /\ written[c][i].Err.text # "cannot unmarshal request reply notification"
            /\ IsMatchReply(written[c][i]) =>
                 Unmarshal(written[c][i].ReplyMsg.payload).err.isNil)

\* the listener of X has acked and skipped one notification of X, has written
\* nothing, and is in its loop with the decodable notification of X queued
C22_Witness ==
    /\ acked["X"] = <<"X">>
    /\ written["X"] = <<>>
    /\ wpc["X"] = "select"
    /\ ctxErr["X"] = ""
    /\ Len(notifyMsgs["X"]) = 1
    /\ handleNotifyMsg(Head(notifyMsgs["X"]), "X").ok

====
